---- MODULE Spec2Model ----
(***************************************************************************)
(* Model of the issue processor (src/main.py, src/interface.py): the       *)
(* GitHub action that finds the latest .json link of an issue, downloads   *)
(* it, validates its records and writes each new entity as a file.         *)
(*                                                                         *)
(* Text is a sequence of symbols.  A symbol is one of the pieces the       *)
(* regular expressions and string methods of the code tell apart.          *)
(***************************************************************************)
EXTENDS FiniteSets, Integers, Naturals, Sequences, TLC

(***************************************************************************)
(* Bounds of the model.                                                    *)
(***************************************************************************)
MaxEarlier == 1
MaxRecs == 2

(***************************************************************************)
(* Python and JSON values carry their type: a string or a path holds a     *)
(* sequence, a list a sequence of values, a dict a function of its keys.   *)
(***************************************************************************)
Str(s) == [t |-> "str", v |-> s]
List(xs) == [t |-> "list", v |-> xs]
Dict(d) == [t |-> "dict", v |-> d]
None == [t |-> "None", v |-> <<>>]
False == [t |-> "bool", v |-> <<>>]
\* A name of the code that holds no value yet, or no longer.
NotBound == [t |-> "unbound", v |-> <<>>]
\* The text of a file or of a response that is not JSON.
Malformed == [t |-> "malformed", v |-> <<>>]

\* bool(x)
Truthy(x) ==
    CASE x.t \in {"str", "list"} -> Len(x.v) > 0
      [] x.t = "dict" -> DOMAIN x.v # {}
      [] OTHER -> FALSE

\* Environment variables hold strings; Unset is the variable that is not there.
Unset == "Unset"
NoException == "NoException"

HTTP_OK == 200
StatusCodes == {HTTP_OK, 404}

\* The result of a call: the exception it raised, if any, and the value it
\* returned.
Return(v) == [exc |-> NoException, value |-> v]
Raise(e) == [exc |-> e, value |-> None]

Last(s) == s[Len(s)]

SeqsUpTo(set, n) == UNION {[1..k -> set] : k \in 0..n}

(***************************************************************************)
(* get_json_file_urls_from_string: re.findall(r"(https?://[^\s)]+)", text) *)
(* filtered by endswith(".json").                                          *)
(***************************************************************************)
Scheme == "https://"
DotJson == ".json"
Space == " "
CloseParen == ")"
Letter == "x"
Slash == "/"
Terminators == {Space, CloseParen}

\* The end of the longest run of non-terminators that starts at i.
RECURSIVE RunEnd(_, _)
RunEnd(text, i) ==
    IF i + 1 <= Len(text) /\ text[i + 1] \notin Terminators
    THEN RunEnd(text, i + 1)
    ELSE i

\* The matches of the pattern in text[i..], leftmost first, not overlapping.
RECURSIVE FindAllUrls(_, _)
FindAllUrls(text, i) ==
    IF i > Len(text) THEN <<>>
    ELSE IF text[i] = Scheme /\ RunEnd(text, i) > i
         THEN <<SubSeq(text, i, RunEnd(text, i))>>
                  \o FindAllUrls(text, RunEnd(text, i) + 1)
         ELSE FindAllUrls(text, i + 1)

EndsWithJson(item) == Last(item) = DotJson

get_json_file_urls_from_string(text) ==
    SelectSeq(FindAllUrls(text, 1), EndsWithJson)

\* latest_json_file.split("/")[-1]: what follows the last "/"; the scheme
\* ends with one.
RECURSIVE LastSegment(_)
LastSegment(url) ==
    IF url = <<>> \/ Last(url) \in {Scheme, Slash} THEN <<>>
    ELSE LastSegment(SubSeq(url, 1, Len(url) - 1)) \o <<Last(url)>>

(***************************************************************************)
(* get_json_response: None unless the status is 200, else the parsed JSON. *)
(* A 200 response whose body is not JSON raises.                           *)
(***************************************************************************)
get_json_response(response) ==
    IF response.status # HTTP_OK THEN Return(None)
    ELSE IF response.json = Malformed THEN Raise("JSONDecodeError")
    ELSE Return(response.json)

(***************************************************************************)
(* Strings of the payload: sequences of characters.                        *)
(***************************************************************************)
LowerOf(c) == IF c = "A" THEN "a" ELSE IF c = "B" THEN "b" ELSE c

\* str.lower()
Lower(s) == [i \in 1..Len(s) |-> LowerOf(s[i])]

\* str.replace(" ", "-")
ReplaceSpaces(s) == [i \in 1..Len(s) |-> IF s[i] = " " THEN "-" ELSE s[i]]


\* _check_unique_name without lower().
_check_unique_name_keeps_case(ent) ==
    IF "unique_name" \notin DOMAIN ent THEN Raise("ValueError")
    ELSE IF ~Truthy(ent.unique_name) THEN Raise("ValueError")
    ELSE IF ent.unique_name.t # "str" THEN Raise("AttributeError")
    ELSE Return(Str(ReplaceSpaces(ent.unique_name.v) \o <<DotJson>>))

(***************************************************************************)
(* _check_unique_name                                                      *)
(***************************************************************************)
_check_unique_name(ent) ==
    IF "unique_name" \notin DOMAIN ent THEN Raise("ValueError")
    ELSE IF ~Truthy(ent.unique_name) THEN Raise("ValueError")
    ELSE IF ent.unique_name.t # "str" THEN Raise("AttributeError")
    ELSE Return(Str(ReplaceSpaces(Lower(ent.unique_name.v)) \o <<DotJson>>))

(***************************************************************************)
(* get_unique_id_from_string: re.findall(r"\((.*?)\)", text), first match. *)
(***************************************************************************)
RECURSIVE IndexFrom(_, _, _)
IndexFrom(text, c, i) ==
    IF i > Len(text) THEN 0
    ELSE IF text[i] = c THEN i ELSE IndexFrom(text, c, i + 1)

get_unique_id_from_string(text) ==
    LET open == IndexFrom(text.v, "(", 1)
        close == IF open = 0 THEN 0 ELSE IndexFrom(text.v, ")", open + 1)
    IN IF close = 0 THEN text ELSE Str(SubSeq(text.v, open + 1, close - 1))

\* list(map(get_unique_id_from_string, labels))
MapUniqueId(labels) ==
    List([i \in 1..Len(labels.v) |-> get_unique_id_from_string(labels.v[i])])

(***************************************************************************)
(* The entity models of interface.py: a field of the wrong type fails the  *)
(* validation.                                                             *)
(***************************************************************************)
IsStr(v) == v.t = "str"
IsOptionalStr(v) == v.t \in {"str", "None"}
IsListOfStr(v) == v.t = "list" /\ \A i \in 1..Len(v.v) : IsStr(v.v[i])

Licenses(name) ==
    IF IsStr(name)
    THEN Return([name |-> name, spdx_id |-> None])
    ELSE Raise("ValidationError")

Organization(name, description, url) ==
    IF IsStr(name) /\ IsOptionalStr(description) /\ IsOptionalStr(url)
    THEN Return([name |-> name, description |-> description, url |-> url])
    ELSE Raise("ValidationError")

ProgrammingLanguage(name, description, url, licenses) ==
    IF IsStr(name) /\ IsStr(url) /\ IsListOfStr(licenses)
           /\ IsOptionalStr(description)
    THEN Return([name |-> name, url |-> url, licenses |-> licenses,
                 description |-> description])
    ELSE Raise("ValidationError")

SoftwareTool(name, description, licenses, languages, organizations, categories, url_website, url_sourcecode, url_docs) ==
    IF IsStr(name) /\ IsListOfStr(categories) /\ IsListOfStr(languages)
           /\ IsListOfStr(organizations) /\ IsListOfStr(licenses)
           /\ IsOptionalStr(description) /\ IsOptionalStr(url_website)
           /\ IsOptionalStr(url_sourcecode) /\ IsOptionalStr(url_docs)
    THEN Return([name |-> name, categories |-> categories,
                 languages |-> languages, organizations |-> organizations,
                 licenses |-> licenses, description |-> description,
                 url_website |-> url_website,
                 url_sourcecode |-> url_sourcecode, url_docs |-> url_docs])
    ELSE Raise("ValidationError")

(***************************************************************************)
(* The data root: a function from the paths that exist to their content.   *)
(* A path is <<directory, file name>>.                                     *)
(***************************************************************************)
Exists(disk, json_file) == json_file \in DOMAIN disk

\* dump_new_file without the test of json_file.exists().
dump_new_file_always(obj, json_file, disk) ==
    [disk |-> (json_file :> obj) @@ disk, value |-> Str(json_file)]

\* dump_new_file that writes the file that exists and returns None for it.
dump_new_file_overwrites(obj, json_file, disk) ==
    [disk |-> (json_file :> obj) @@ disk,
     value |-> IF Exists(disk, json_file) THEN None ELSE Str(json_file)]

\* dump_new_file: the disk afterwards and the returned path (None when the
\* file was there already).
dump_new_file(obj, json_file, disk) ==
    IF ~Exists(disk, json_file)
    THEN [disk |-> (json_file :> obj) @@ disk, value |-> Str(json_file)]
    ELSE [disk |-> disk, value |-> None]

\* The arguments of a constructor call are subscripted in order; the first
\* key that is missing raises KeyError.
HasKeys(ent, keys) == keys \subseteq DOMAIN ent

\* map(get_unique_id_from_string, v) over a value that is not iterable
\* raises TypeError.
Iterable(ent, keys) == \A k \in keys : ent[k].t = "list"

LicensesFrom(lic) ==
    IF ~HasKeys(lic, {"name"}) THEN Raise("KeyError")
    ELSE Licenses(lic.name)

OrganizationFrom(org) ==
    IF ~HasKeys(org, {"name", "description", "url"}) THEN Raise("KeyError")
    ELSE Organization(org.name, org.description, org.url)

ProgrammingLanguageFrom(lang) ==
    IF ~HasKeys(lang, {"name", "description", "url", "licenses"})
    THEN Raise("KeyError")
    ELSE IF ~Iterable(lang, {"licenses"}) THEN Raise("TypeError")
    ELSE ProgrammingLanguage(lang.name, lang.description, lang.url,
                             MapUniqueId(lang.licenses))

SoftwareToolFrom(soft) ==
    IF ~HasKeys(soft, {"name", "description", "licenses", "languages",
                       "organizations", "categories", "url_website",
                       "url_sourcecode", "url_docs"})
    THEN Raise("KeyError")
    ELSE IF ~Iterable(soft, {"licenses", "languages", "organizations",
                             "categories"})
    THEN Raise("TypeError")
    ELSE SoftwareTool(soft.name, soft.description,
                      MapUniqueId(soft.licenses), MapUniqueId(soft.languages),
                      MapUniqueId(soft.organizations),
                      MapUniqueId(soft.categories), soft.url_website,
                      soft.url_sourcecode, soft.url_docs)

Construct(dir, ent) ==
    CASE dir = "licenses" -> LicensesFrom(ent)
      [] dir = "organizations" -> OrganizationFrom(ent)
      [] dir = "languages" -> ProgrammingLanguageFrom(ent)
      [] dir = "software" -> SoftwareToolFrom(ent)

\* The state of one update loop: the disk, the list updated_files and the
\* exception that ended the loop (NoException while it runs).

\* if response: updated_files.append(response)
AfterDump(st, response) ==
    IF Truthy(response.value)
    THEN [st EXCEPT !.disk = response.disk,
                    !.files = Append(st.files, response.value.v)]
    ELSE [st EXCEPT !.disk = response.disk]

\* response = dump_new_file(pydantic, path / file_name), unless the
\* constructor raised.
AfterConstruct(dir, file_name, pydantic, st) ==
    IF pydantic.exc # NoException THEN [st EXCEPT !.exc = pydantic.exc]
    ELSE AfterDump(st, dump_new_file(pydantic.value, <<dir, file_name.v>>, st.disk))

\* The loop body that goes on to the next record when the unique name check
\* raised.
AfterCheck_skips_unnamed(dir, ent, file_name, st) ==
    IF file_name.exc # NoException THEN st
    ELSE AfterConstruct(dir, file_name.value, Construct(dir, ent), st)

\* The loop body after file_name = _check_unique_name(ent): the exception of
\* the check ends the loop.
AfterCheck(dir, ent, file_name, st) ==
    IF file_name.exc # NoException THEN [st EXCEPT !.exc = file_name.exc]
    ELSE AfterConstruct(dir, file_name.value, Construct(dir, ent), st)

\* One iteration of the loop body for the record ent.
UpdateStep(dir, ent, st) == AfterCheck(dir, ent, _check_unique_name(ent), st)

RECURSIVE UpdateLoop(_, _, _, _)
UpdateLoop(dir, ents, i, st) ==
    IF i > Len(ents) \/ st.exc # NoException THEN st
    ELSE UpdateLoop(dir, ents, i + 1, UpdateStep(dir, ents[i], st))

Update(dir, ents, disk) ==
    UpdateLoop(dir, ents, 1, [disk |-> disk, files |-> <<>>, exc |-> NoException])

update_licenses(licenses, disk) == Update("licenses", licenses, disk)
update_organizations(orgs, disk) == Update("organizations", orgs, disk)
update_languages(langs, disk) == Update("languages", langs, disk)
update_software(softs, disk) == Update("software", softs, disk)

(***************************************************************************)
(* process_issue_json_file: the four collections in order; an exception    *)
(* of one ends the pass.                                                   *)
(***************************************************************************)
Directories == <<"licenses", "organizations", "languages", "software">>

\* "key" in issue_content and issue_content[key]
Present(issue_content, key) ==
    key \in DOMAIN issue_content /\ issue_content[key] # <<>>

UpdateOf(key, ents, disk) ==
    CASE key = "licenses" -> update_licenses(ents, disk)
      [] key = "organizations" -> update_organizations(ents, disk)
      [] key = "languages" -> update_languages(ents, disk)
      [] key = "software" -> update_software(ents, disk)

\* new_files += update(...)
Extend(st, r) == [disk |-> r.disk, files |-> st.files \o r.files, exc |-> r.exc]

\* The if statements of lines 209-227, from the d-th on.
RECURSIVE ProcessKeys(_, _, _)
ProcessKeys(issue_content, d, st) ==
    IF d > Len(Directories) \/ st.exc # NoException THEN st
    ELSE ProcessKeys(issue_content, d + 1,
             IF Present(issue_content, Directories[d])
             THEN Extend(st, UpdateOf(Directories[d],
                                      issue_content[Directories[d]], st.disk))
             ELSE st)

\* json.load of the downloaded file, then the four collections.
process_issue_json_file(json_file, disk) ==
    IF json_file = Malformed
    THEN [disk |-> disk, files |-> <<>>, exc |-> "JSONDecodeError"]
    ELSE ProcessKeys(json_file.v, 1,
                     [disk |-> disk, files |-> <<>>, exc |-> NoException])

(***************************************************************************)
(* The inputs of the model.                                                *)
(***************************************************************************)
UrlA == <<Scheme, Letter, Slash, Letter, DotJson>>
UrlB == <<Scheme, Letter, Letter, Slash, Letter, DotJson>>
UrlTxt == <<Scheme, Letter, Slash, Letter>>

\* The texts of comments and issue bodies.
Texts ==
    { <<>>,
      <<Letter, Space, Letter>>,
      <<Letter, DotJson>>,
      UrlTxt,
      UrlA,
      <<Letter, Space>> \o UrlB \o <<Space, Letter>>,
      <<Letter, "(">> \o UrlA \o <<CloseParen>>,
      UrlA \o <<Space>> \o UrlB,
      UrlB \o <<Space>> \o UrlA,
      UrlA \o <<Space>> \o UrlTxt,
      UrlTxt \o <<DotJson, CloseParen, Scheme>> }

\* The JSON of the comments endpoint: a list of comments.
CommentLists ==
    {List(<<>>)} \cup
    { List([i \in 1..Len(earlier) + 1 |->
            [body |-> Str(IF i <= Len(earlier) THEN earlier[i] ELSE last)]]) :
      earlier \in SeqsUpTo(Texts, MaxEarlier), last \in Texts }

\* The JSON of the issue endpoint.
IssueObjects == { Dict([body |-> b]) : b \in {Str(t) : t \in Texts} \cup {None} }

Responses(jsons) ==
    { [status |-> c, json |-> j] :
        c \in StatusCodes, j \in jsons \cup {Malformed} }

\* The unique names of the records.
UniqueNames == { Str(<<>>), Str(<<"A", " ", "B">>), Str(<<"a", "-", "b">>) }
OtherName == Str(<<"c">>)
NameN == Str(<<"n">>)
NameM == Str(<<"m">>)
Labels == List(<< Str(<<"M", " ", "(", "m", ")">>), Str(<<"g">>),
               Str(<<"(", "(", "p", ")", ")">>) >>)

DirIndex(dir) == CHOOSE i \in 1..Len(Directories) : Directories[i] = dir

Full(dir, unique_name, name) ==
    CASE dir = "licenses" ->
           [unique_name |-> unique_name, name |-> name]
      [] dir = "organizations" ->
           [unique_name |-> unique_name, name |-> name,
            description |-> Str(<<"d">>), url |-> Str(<<"u">>)]
      [] dir = "languages" ->
           [unique_name |-> unique_name, name |-> name,
            description |-> Str(<<"d">>), url |-> Str(<<"u">>), licenses |-> Labels]
      [] dir = "software" ->
           [unique_name |-> unique_name, name |-> name,
            description |-> Str(<<"d">>), licenses |-> Labels,
            languages |-> List(<<>>), organizations |-> Labels,
            categories |-> Labels, url_website |-> Str(<<"u">>),
            url_sourcecode |-> Str(<<"u">>), url_docs |-> Str(<<"u">>)]

Without(ent, key) == [k \in DOMAIN ent \ {key} |-> ent[k]]
WithNone(ent, key) == [ent EXCEPT ![key] = None]

OmittedKeys(dir) ==
    CASE dir = "licenses" -> {"unique_name", "name"}
      [] dir = "organizations" -> {"unique_name", "name", "description", "url"}
      [] dir = "languages" -> {"unique_name", "name", "description", "licenses"}
      [] dir = "software" ->
           {"unique_name", "name", "description", "url_docs", "categories"}

NullKeys(dir) ==
    CASE dir = "licenses" -> {"name"}
      [] dir = "organizations" -> {"name", "description"}
      [] dir = "languages" -> {"name", "description", "licenses"}
      [] dir = "software" -> {"name", "url_docs", "categories"}

RawRecords(dir) ==
    { Full(dir, u, NameN) : u \in UniqueNames }
        \cup { Full(dir, Str(<<"a", "-", "b">>), NameM) }
        \cup { Without(Full(dir, OtherName, NameN), k) : k \in OmittedKeys(dir) }
        \cup { WithNone(Full(dir, OtherName, NameN), k) : k \in NullKeys(dir) }

Items == UNION { {[dir |-> Directories[d], ent |-> r] : r \in RawRecords(Directories[d])} :
                 d \in 1..Len(Directories) }

\* The records of a payload, grouped by collection.
ItemLists ==
    { s \in SeqsUpTo(Items, MaxRecs) :
        \A i \in 1..Len(s) - 1 : DirIndex(s[i].dir) <= DirIndex(s[i + 1].dir) }

Collection(s, dir) ==
    LET sel == SelectSeq(s, LAMBDA it : it.dir = dir)
    IN [i \in 1..Len(sel) |-> sel[i].ent]

DirsOf(s) == { s[i].dir : i \in 1..Len(s) }

\* The payloads: every key that is present holds a list, except for the
\* payloads that hold only empty lists or only an unrecognized key.
Payloads ==
    { [dir \in DirsOf(s) |-> Collection(s, dir)] : s \in ItemLists }
        \cup { [dir \in {"licenses", "organizations", "languages", "software"} |-> <<>>],
               [categories |-> <<Full("licenses", OtherName, NameN)>>] }

FileContents == { Dict(p) : p \in Payloads } \cup {Malformed}

OldContent == [name |-> Str(<<"o", "l", "d">>)]
PreExisting ==
    { <<"licenses", <<"a", "-", "b", DotJson>>>>,
      <<"software", <<"c", DotJson>>>> }
InitialDisks == { [p \in paths |-> OldContent] : paths \in SUBSET PreExisting }

(***************************************************************************)
(* The state of an invocation of main.                                     *)
(***************************************************************************)
VARIABLES
    environ,           \* os.environ
    pc,                \* the statement main is at
    comments,          \* download_data_file: comments
    body,              \* download_data_file: body
    json_files,        \* download_data_file: json_files
    latest_json_file,  \* download_data_file: latest_json_file
    file_name,         \* download_data_file: file_name, then main: file_name
    requests,          \* the GET requests sent so far
    git,               \* the git commands run so far
    cwd,               \* the working directory: the files downloaded into it
    issue_file,        \* the content of the downloaded file, once known
    disk,              \* the data root
    disk0,             \* the data root when the invocation started
    new_files,         \* main: new_files
    exc,               \* the exception that reached the handler of main
    output,            \* the lines appended to GITHUB_OUTPUT
    pass,              \* the number of this invocation
    prev_exc           \* the exception of the invocation before this one

vars == <<environ, pc, comments, body, json_files, latest_json_file,
          file_name, requests, git, cwd, issue_file, disk, disk0, new_files,
          exc, output, pass, prev_exc>>

frame == <<comments, body, json_files, latest_json_file>>

InputNames == {"INPUT_ISSUE_NUMBER", "INPUT_ISSUE_TITLE", "INPUT_ISSUE_URL",
               "INPUT_TOKEN"}
ReadAtStart == InputNames \cup {"GITHUB_OUTPUT"}

Environments ==
    { e \in [ReadAtStart \cup {"INPUT_DATAPATH"} -> {Unset, "", "42"}] :
        e["GITHUB_OUTPUT"] # "" }

\* save_output(key, value, file_path)
save_output(key, value, out) == Append(out, [key |-> key, value |-> value])

\* save_multiline_output(key, value, file_path)
save_multiline_output(key, value, out) ==
    Append(out, [key |-> key, value |-> <<"<<EOF", value, "EOF">>])

\* f"issue_{issue_number}_branch"
BranchName(issue_number) == <<"issue_", issue_number, "_branch">>

Init ==
    /\ environ \in Environments
    /\ pc = "main"
    /\ comments = NotBound
    /\ body = NotBound
    /\ json_files = <<>>
    /\ latest_json_file = NotBound
    /\ file_name = NotBound
    /\ requests = <<>>
    /\ git = <<>>
    /\ cwd = {}
    /\ issue_file = NotBound
    /\ disk \in InitialDisks
    /\ disk0 = disk
    /\ new_files = <<>>
    /\ exc = NoException
    /\ output = <<>>
    /\ pass = 1
    /\ prev_exc = NoException

\* main, lines 248-260: a variable that is not in the environment raises
\* KeyError outside the try statement.
MainStart ==
    /\ pc = "main"
    /\ pc' = IF \E n \in ReadAtStart : environ[n] = Unset THEN "crashed"
             ELSE IF \A n \in InputNames : environ[n] = "" THEN "done"
             ELSE IF \E n \in InputNames : environ[n] = "" THEN "done"
             ELSE "fetch_comments"
    /\ UNCHANGED <<environ, frame, file_name, requests, git, cwd, issue_file,
                   disk, disk0, new_files, exc, output, pass, prev_exc>>

\* download_data_file, lines 45-46 and 51-52.
FetchComments ==
    /\ pc = "fetch_comments"
    /\ \E response \in Responses(CommentLists) :
         LET r == get_json_response(response)
         IN /\ requests' = Append(requests, [kind |-> "comments", url |-> <<>>])
            /\ IF r.exc # NoException
               THEN /\ exc' = r.exc
                    /\ pc' = "except"
                    /\ UNCHANGED <<comments, json_files>>
               ELSE /\ comments' = r.value
                    /\ exc' = exc
                    /\ IF ~Truthy(r.value)
                       THEN pc' = "fetch_body" /\ UNCHANGED json_files
                       ELSE /\ json_files' = get_json_file_urls_from_string(
                                                 Last(r.value.v).body.v)
                            /\ pc' = "select"
    /\ UNCHANGED <<environ, body, latest_json_file, file_name, git, cwd,
                   issue_file, disk, disk0, new_files, output, pass, prev_exc>>

\* download_data_file, lines 47-50: body.get on None raises AttributeError.
FetchBody ==
    /\ pc = "fetch_body"
    /\ \E response \in Responses(IssueObjects) :
         LET r == get_json_response(response)
         IN /\ requests' = Append(requests, [kind |-> "issue", url |-> <<>>])
            /\ IF r.exc # NoException
               THEN /\ exc' = r.exc
                    /\ pc' = "except"
                    /\ UNCHANGED <<body, json_files, file_name>>
               ELSE /\ body' = r.value
                    /\ IF r.value = None
                       THEN /\ exc' = "AttributeError"
                            /\ pc' = "except"
                            /\ UNCHANGED <<json_files, file_name>>
                       ELSE IF ~Truthy(r.value.v.body)
                       THEN /\ file_name' = None
                            /\ pc' = "downloaded"
                            /\ UNCHANGED <<json_files, exc>>
                       ELSE /\ json_files' = get_json_file_urls_from_string(
                                                 r.value.v.body.v)
                            /\ pc' = "select"
                            /\ UNCHANGED <<file_name, exc>>
    /\ UNCHANGED <<environ, comments, latest_json_file, git, cwd, issue_file,
                   disk, disk0, new_files, output, pass, prev_exc>>

\* json_files[0]
FirstOf(files) == files[1]

\* json_files[-1]
LatestOf(files) == Last(files)

\* download_data_file, lines 54-60.
Select ==
    /\ pc = "select"
    /\ IF json_files = <<>>
       THEN /\ file_name' = None
            /\ pc' = "downloaded"
            /\ UNCHANGED latest_json_file
       ELSE /\ latest_json_file' = Str(LatestOf(json_files))
            /\ file_name' = Str(LastSegment(LatestOf(json_files)))
            /\ pc' = "get_file"
    /\ UNCHANGED <<environ, comments, body, json_files, requests, git, cwd,
                   issue_file, disk, disk0, new_files, exc, output, pass, prev_exc>>

\* download_data_file, lines 61-70: the file is written to the working
\* directory; what it holds is read by process_issue_json_file.
GetFile ==
    /\ pc = "get_file"
    /\ \E status_code \in StatusCodes :
         /\ requests' = Append(requests, [kind |-> "file", url |-> latest_json_file.v])
         /\ IF status_code # HTTP_OK
            THEN file_name' = False /\ cwd' = cwd
            ELSE file_name' = file_name /\ cwd' = cwd \cup {file_name.v}
    /\ pc' = "downloaded"
    /\ UNCHANGED <<environ, frame, git, issue_file, disk, disk0, new_files,
                   exc, output, pass, prev_exc>>

\* main, lines 263-265; the names of download_data_file are gone when main
\* goes on.
AfterDownload ==
    /\ pc = "downloaded"
    /\ IF ~Truthy(file_name)
       THEN pc' = "done" /\ UNCHANGED frame
       ELSE /\ pc' = "git"
            /\ comments' = NotBound
            /\ body' = NotBound
            /\ json_files' = <<>>
            /\ latest_json_file' = NotBound
    /\ UNCHANGED <<environ, file_name, requests, git, cwd, issue_file, disk,
                   disk0, new_files, exc, output, pass, prev_exc>>

GitCommands == <<"user.email", "user.name", "safe.directory">>

\* setup_github_permissions: the command that fails raises
\* CalledProcessError (check=True).
SetupGit ==
    /\ pc = "git"
    /\ \E ran \in 1..Len(GitCommands), failed \in BOOLEAN :
         /\ failed \/ ran = Len(GitCommands)
         /\ git' = git \o SubSeq(GitCommands, 1, ran)
         /\ IF failed
            THEN exc' = "CalledProcessError" /\ pc' = "except"
            ELSE exc' = exc /\ pc' = "process"
    /\ UNCHANGED <<environ, frame, file_name, requests, cwd, issue_file,
                   disk, disk0, new_files, output, pass, prev_exc>>

\* main, line 271: os.environ["INPUT_DATAPATH"] of a variable that is not
\* there raises KeyError before process_issue_json_file is called.
DataPathMissing ==
    /\ pc = "process"
    /\ environ["INPUT_DATAPATH"] = Unset
    /\ exc' = "KeyError"
    /\ pc' = "except"
    /\ UNCHANGED <<environ, frame, file_name, requests, git, cwd, issue_file,
                   disk, disk0, new_files, output, pass, prev_exc>>

\* main, lines 270-273, on a downloaded file that holds content.
ProcessFile(content) ==
    /\ pc = "process"
    /\ environ["INPUT_DATAPATH"] # Unset
    /\ \E r \in {process_issue_json_file(content, disk)} :
          /\ disk' = r.disk
          /\ exc' = r.exc
          /\ IF r.exc # NoException
             THEN pc' = "except" /\ UNCHANGED <<new_files, cwd>>
             ELSE /\ new_files' = r.files
                  /\ cwd' = cwd \ {file_name.v}
                  /\ pc' = "report"
    /\ UNCHANGED <<environ, frame, file_name, requests, git, issue_file,
                   disk0, output, pass, prev_exc>>

\* The content of the file is whatever the server sent.
Process ==
    /\ pc = "process"
    /\ environ["INPUT_DATAPATH"] # Unset
    /\ issue_file = NotBound
    /\ \E content \in FileContents : ProcessFile(content)

\* The branch output whatever new_files holds.
HasNewFiles_always(files) == TRUE

\* if new_files
HasNewFiles(files) == files # <<>>

\* main, lines 274-277.
Report ==
    /\ pc = "report"
    /\ output' = IF HasNewFiles(new_files)
                 THEN save_output("branch",
                                  BranchName(environ["INPUT_ISSUE_NUMBER"]), output)
                 ELSE output
    /\ pc' = "done"
    /\ UNCHANGED <<environ, frame, file_name, requests, git, cwd, issue_file,
                   disk, disk0, new_files, exc, pass, prev_exc>>

\* main, lines 278-281.
Except ==
    /\ pc = "except"
    /\ output' = save_multiline_output("errormessage", exc, output)
    /\ pc' = "done"
    /\ UNCHANGED <<environ, frame, file_name, requests, git, cwd, issue_file,
                   disk, disk0, new_files, exc, pass, prev_exc>>

Next ==
    \/ MainStart
    \/ FetchComments
    \/ FetchBody
    \/ Select
    \/ GetFile
    \/ AfterDownload
    \/ SetupGit
    \/ DataPathMissing
    \/ Process
    \/ Report
    \/ Except

Spec == Init /\ [][Next]_vars

(***************************************************************************)
(* The materializer on a known file: main from line 270 on, with the file  *)
(* downloaded and git set up, and a second invocation on the same file and *)
(* the same data root.                                                     *)
(***************************************************************************)
MaxPasses == 2
DownloadedName == LastSegment(UrlA)

InitKnown ==
    /\ environ = [n \in ReadAtStart \cup {"INPUT_DATAPATH"} |-> "42"]
    /\ pc = "process"
    /\ comments = NotBound
    /\ body = NotBound
    /\ json_files = <<>>
    /\ latest_json_file = NotBound
    /\ file_name = Str(DownloadedName)
    /\ requests = <<>>
    /\ git = GitCommands
    /\ cwd = {DownloadedName}
    /\ issue_file \in FileContents
    /\ disk \in InitialDisks
    /\ disk0 = disk
    /\ new_files = <<>>
    /\ exc = NoException
    /\ output = <<>>
    /\ pass = 1
    /\ prev_exc = NoException

ProcessKnown ==
    /\ issue_file # NotBound
    /\ ProcessFile(issue_file)

\* The action runs again for the same issue: the same file is downloaded
\* and the data root is as the first invocation left it.
Again ==
    /\ pc = "done"
    /\ pass < MaxPasses
    /\ pass' = pass + 1
    /\ pc' = "process"
    /\ cwd' = cwd \cup {file_name.v}
    /\ disk0' = disk
    /\ new_files' = <<>>
    /\ prev_exc' = exc
    /\ exc' = NoException
    /\ output' = <<>>
    /\ UNCHANGED <<environ, frame, file_name, requests, git, issue_file, disk>>

NextKnown ==
    \/ ProcessKnown
    \/ Report
    \/ Except
    \/ Again

SpecKnown == InitKnown /\ [][NextKnown]_vars

(***************************************************************************)
(* What the claims speak of.                                               *)
(***************************************************************************)
Range(seq) == { seq[i] : i \in 1..Len(seq) }
HasOutput(key) == \E i \in 1..Len(output) : output[i].key = key
Returned == pc \in {"report", "done"} /\ exc = NoException /\ issue_file # NotBound
Ended == pc = "done" /\ issue_file # NotBound

\* The records of the payload in the order they are processed.
RECURSIVE Flatten(_, _)
Flatten(payload, d) ==
    IF d > Len(Directories) THEN <<>>
    ELSE (IF Directories[d] \in DOMAIN payload
          THEN [i \in 1..Len(payload[Directories[d]]) |->
                   [dir |-> Directories[d], ent |-> payload[Directories[d]][i]]]
          ELSE <<>>) \o Flatten(payload, d + 1)

Records == IF issue_file.t = "dict" THEN Flatten(issue_file.v, 1) ELSE <<>>

HasUniqueName(ent) ==
    /\ "unique_name" \in DOMAIN ent
    /\ ent.unique_name.t = "str"
    /\ ent.unique_name.v # <<>>

\* lowercase(unique_name).replace(' ', '-') + ".json" under the collection.
Slug(name) ==
    [i \in 1..Len(name) + 1 |->
        IF i = Len(name) + 1 THEN DotJson
        ELSE IF name[i] = " " THEN "-"
        ELSE IF name[i] = "A" THEN "a"
        ELSE IF name[i] = "B" THEN "b"
        ELSE name[i]]
PathOf(rec) == <<rec.dir, Slug(rec.ent.unique_name.v)>>

\* The schema: the required and the optional fields of each entity.
RequiredStr(dir) ==
    IF dir = "languages" THEN {"name", "url"} ELSE {"name"}
RequiredList(dir) ==
    CASE dir = "languages" -> {"licenses"}
      [] dir = "software" -> {"categories", "languages", "organizations", "licenses"}
      [] OTHER -> {}
OptionalStr(dir) ==
    CASE dir = "licenses" -> {}
      [] dir = "organizations" -> {"description", "url"}
      [] dir = "languages" -> {"description"}
      [] dir = "software" ->
           {"description", "url_website", "url_sourcecode", "url_docs"}

\* A record the schema accepts: a unique name, the required fields, and
\* optional fields that are omitted, None or a string.
Acceptable(rec) ==
    /\ HasUniqueName(rec.ent)
    /\ \A k \in RequiredStr(rec.dir) :
           k \in DOMAIN rec.ent /\ rec.ent[k].t = "str" /\ rec.ent[k].v # <<>>
    /\ \A k \in RequiredList(rec.dir) :
           k \in DOMAIN rec.ent /\ rec.ent[k].t = "list"
    /\ \A k \in OptionalStr(rec.dir) :
           k \in DOMAIN rec.ent => rec.ent[k].t \in {"str", "None"}

\* A record the code takes: every field it reads is there and is valid.
Complete(rec) ==
    /\ Acceptable(rec)
    /\ OptionalStr(rec.dir) \subseteq DOMAIN rec.ent

FirstWithPath(i) == \A j \in 1..(i - 1) : PathOf(Records[j]) # PathOf(Records[i])

\* C1: when a pass over a payload completed, the next pass over the same
\* payload and data root completes too, returns no new file and leaves every
\* file of the data root as it was.
C1_Idempotence ==
    (pass > 1 /\ prev_exc = NoException /\ pc # "process")
        => /\ exc = NoException
           /\ new_files = <<>>
           /\ disk = disk0
           /\ (pc = "done" => output = <<>>)

C1_Witness ==
    /\ pass > 1 /\ pc = "done" /\ prev_exc = NoException
    /\ \E p \in DOMAIN disk : disk[p] # OldContent

\* C2: a file that is in the data root when a pass starts keeps its content
\* and is not among the new files of the pass, whatever the record that
\* derives its path holds; the files an earlier pass created are such files.
C2_SkipExisting ==
    \A p \in DOMAIN disk0 :
        /\ p \in DOMAIN disk
        /\ disk[p] = disk0[p]
        /\ p \notin Range(new_files)

C2_Witness ==
    /\ Ended /\ pass = 1 /\ exc = NoException
    /\ \E i \in 1..Len(Records) :
          /\ Complete(Records[i])
          /\ PathOf(Records[i]) \in DOMAIN disk0
          /\ Construct(Records[i].dir, Records[i].ent).value
                 # disk0[PathOf(Records[i])]

\* C3 as claimed: the branch output is there if and only if the pass
\* created a file.
C3_BranchIffCreated ==
    pc = "done" => (HasOutput("branch") <=> disk # disk0)

\* C3 as amended: the branch output is there if and only if the materializer
\* returned a list that is not empty, and it is then the only output and
\* names issue_<number>_branch; when the materializer returned an empty list
\* there is no output at all.
C3_BranchIffReturnedNew ==
    pc = "done" =>
        /\ HasOutput("branch") <=> (exc = NoException /\ new_files # <<>>)
        /\ HasOutput("branch") =>
               output = <<[key |-> "branch",
                           value |-> <<"issue_", environ["INPUT_ISSUE_NUMBER"],
                                       "_branch">>]>>
        /\ (exc = NoException /\ new_files = <<>>) => output = <<>>
        /\ (exc = NoException /\ new_files # <<>>) => disk # disk0

C3_Witness ==
    /\ pc = "done" /\ pass = 1 /\ requests # <<>>
    /\ HasOutput("branch")
    /\ DOMAIN disk0 # {}

\* C4: a file URL was found and its GET did not return 200: the invocation
\* ends with an errormessage output.
C4_DownloadFailureReported ==
    (pc = "done" /\ file_name = False) => HasOutput("errormessage")

\* The .json URLs of a text: in each run of characters that are neither
\* white space nor ")", what goes from the first scheme to the end of the
\* run, when something follows the scheme and the run ends with .json.
InRun(text, i, j) == \A m \in i..j : text[m] \notin Terminators
IsUrlSpan(text, i, j) ==
    /\ i < j
    /\ text[i] = Scheme
    /\ InRun(text, i, j)
    /\ j = Len(text) \/ text[j + 1] \in Terminators
    /\ \A h \in 1..(i - 1) : InRun(text, h, i) => text[h] # Scheme
JsonSpans(text) ==
    { sp \in (1..Len(text)) \X (1..Len(text)) :
        IsUrlSpan(text, sp[1], sp[2]) /\ text[sp[2]] = DotJson }
HasJsonLink(text) == JsonSpans(text) # {}
LastJsonUrl(text) ==
    LET sp == CHOOSE a \in JsonSpans(text) : \A b \in JsonSpans(text) : b[1] <= a[1]
    IN SubSeq(text, sp[1], sp[2])

NoComments == comments.t = "None" \/ (comments.t = "list" /\ comments.v = <<>>)
BodyFetched == body.t \in {"None", "dict"}
NoLinkInBody ==
    \/ body.t = "None"
    \/ body.t = "dict" /\ body.v.body.t = "None"
    \/ body.t = "dict" /\ body.v.body.t = "str" /\ ~HasJsonLink(body.v.body.v)
NoLinkInLastComment ==
    comments.t = "list" /\ comments.v # <<>>
        /\ ~HasJsonLink(Last(comments.v).body.v)

\* C5: no comments and no link in what the issue fetch gave, or no link in
\* the last comment: the invocation ends with no output and no file written
\* to the data root.
C5_AbsenceIsSilent ==
    (pc = "done" /\ ((NoComments /\ BodyFetched /\ NoLinkInBody)
                        \/ NoLinkInLastComment))
        => output = <<>> /\ disk = disk0

\* C6: the URL that is downloaded is the last .json URL of the last comment
\* when there are comments and of the issue body when there are none; the
\* issue is not fetched when there are comments, and a last comment with no
\* .json URL gives None whatever the earlier comments hold.
C6_LatestFileSelection ==
    /\ Truthy(comments) =>
           /\ body = NotBound
           /\ \A i \in 1..Len(requests) : requests[i].kind # "issue"
    /\ latest_json_file # NotBound =>
           LET text == IF Truthy(comments) THEN Last(comments.v).body.v
                       ELSE body.v.body.v
           IN HasJsonLink(text) /\ latest_json_file.v = LastJsonUrl(text)
    /\ pc \in {"get_file", "downloaded"} =>
           \A i \in 1..Len(requests) :
               requests[i].kind = "file" =>
                   /\ latest_json_file # NotBound
                   /\ requests[i].url = latest_json_file.v
    /\ (pc \in {"downloaded", "done"} /\ NoLinkInLastComment) =>
           /\ file_name = None
           /\ latest_json_file = NotBound
           /\ Len(requests) = 1

C6_Witness ==
    /\ pc = "downloaded"
    /\ file_name.t = "str"
    /\ comments.t = "list" /\ Len(comments.v) > 1
    /\ Len(json_files) > 1
    /\ json_files[1] # latest_json_file.v
    /\ HasJsonLink(comments.v[1].body.v)
    /\ LastJsonUrl(comments.v[1].body.v) # latest_json_file.v

\* The first record with no unique name, or an empty one (0 when every
\* record has one).
FirstUnnamed ==
    IF \E i \in 1..Len(Records) : ~HasUniqueName(Records[i].ent)
    THEN CHOOSE i \in 1..Len(Records) :
             /\ ~HasUniqueName(Records[i].ent)
             /\ \A j \in 1..(i - 1) : HasUniqueName(Records[j].ent)
    ELSE 0

\* C7: a record without unique name ends the invocation: the only output is
\* errormessage, the data root holds what the records before it wrote and
\* nothing of a record after it, and when no record before it failed the
\* exception is the one of the unique name check.
C7_MissingUniqueNameAborts ==
    (Ended /\ FirstUnnamed > 0) =>
        /\ exc # NoException
        /\ Len(output) = 1 /\ output[1].key = "errormessage"
        /\ ~HasOutput("branch")
        /\ new_files = <<>>
        /\ \A p \in DOMAIN disk \ DOMAIN disk0 :
               \E j \in 1..(FirstUnnamed - 1) :
                   /\ PathOf(Records[j]) = p
                   /\ Complete(Records[j])
        /\ \A j \in 1..(FirstUnnamed - 1) :
               (\A h \in 1..j : Complete(Records[h]))
                   => PathOf(Records[j]) \in DOMAIN disk
        /\ (\A j \in 1..(FirstUnnamed - 1) : Complete(Records[j]))
               => exc = "ValueError"

C7_Witness ==
    /\ Ended /\ pass = 1
    /\ FirstUnnamed > 1
    /\ disk # disk0
    /\ exc = "ValueError"

\* C8: a record with a unique name and its required fields, whose optional
\* fields may be omitted, becomes a file: the pass completes and every such
\* record has its file.
C8_OptionalFieldsDefault ==
    (Ended /\ pass = 1 /\ \A i \in 1..Len(Records) : Acceptable(Records[i]))
        => /\ exc = NoException
           /\ \A i \in 1..Len(Records) : PathOf(Records[i]) \in DOMAIN disk

IsPresent(n) == environ[n] \notin {Unset, ""}
RequiredInputs == InputNames \cup {"INPUT_DATAPATH"}

\* C9: some required input is present and some is missing: no request, no
\* git command, no file written and no output.
C9_PartialInputsAbort ==
    ((\E n \in RequiredInputs : IsPresent(n))
         /\ (\E n \in RequiredInputs : ~IsPresent(n)))
        => /\ requests = <<>>
           /\ git = <<>>
           /\ cwd = {}
           /\ disk = disk0
           /\ output = <<>>

\* C10: the list a pass returns holds, in processing order and once each,
\* the paths of the records that are the first of the payload to derive
\* their path and whose path was not in the data root; these are the files
\* the pass created, and each holds the entity of that first record.
NewIndices ==
    { i \in 1..Len(Records) :
        FirstWithPath(i) /\ PathOf(Records[i]) \notin DOMAIN disk0 }

C10_NewFilesExact ==
    (Returned /\ \A i \in 1..Len(Records) : HasUniqueName(Records[i].ent)) =>
        /\ \A a, b \in 1..Len(new_files) : new_files[a] = new_files[b] => a = b
        /\ Range(new_files) = { PathOf(Records[i]) : i \in NewIndices }
        /\ Range(new_files) = DOMAIN disk \ DOMAIN disk0
        /\ \A a, b \in 1..Len(new_files) :
               a < b => \E i, j \in NewIndices :
                            /\ i < j
                            /\ PathOf(Records[i]) = new_files[a]
                            /\ PathOf(Records[j]) = new_files[b]
        /\ \A i \in NewIndices :
               disk[PathOf(Records[i])]
                   = Construct(Records[i].dir, Records[i].ent).value

C10_Witness ==
    /\ Returned /\ pass = 1
    /\ \E i, j \in 1..Len(Records) :
          /\ i < j
          /\ i \in NewIndices
          /\ Records[i].dir = Records[j].dir
          /\ Records[i].ent.unique_name # Records[j].ent.unique_name
          /\ PathOf(Records[i]) = PathOf(Records[j])
          /\ Construct(Records[i].dir, Records[i].ent).value
                 # Construct(Records[j].dir, Records[j].ent).value

====
